---- MODULE Spec2Model ----
(***************************************************************************)
(* SADC Agro-Processing Investment Dashboard (dashboard_agriculture.py).   *)
(*                                                                         *)
(* The program is a Streamlit script: every change of a widget runs the    *)
(* whole script again, top to bottom, over the five cached tables.  A      *)
(* state of the model is the state after one run of the script: the        *)
(* tables, the widget values and the values the script derived from them.  *)
(* An action is one widget change together with the run that follows it.   *)
(*                                                                         *)
(* Numbers: the script computes in IEEE doubles; the model computes the    *)
(* same expressions in exact rational arithmetic (a pair <<n, d>>, d > 0,  *)
(* in lowest terms), and NaN is the pair <<0, 0>>.                         *)
(***************************************************************************)
EXTENDS Integers, Sequences, FiniteSets, TLC

VARIABLES
    df_production, df_trade, df_capacity, df_prices, df_opportunities,
    rng, normal_stream, price_loads,
    selected_countries, year_range, investment_focus, selected_commodities,
    investment_amount, processing_capacity, capacity_utilization, margin_per_mt,
    df_production_filtered, df_trade_filtered, df_capacity_filtered,
    latest_year_prod, prev_year_prod, yoy_growth,
    investment_opps, avg_roi, avg_roi_metric,
    crop_totals, top_crops, yield_data, yield_data_sorted, country_totals,
    crop_country_totals, crop_country, imports, imports_totals, imports_summary,
    fig_capacity, gap_totals, gap_summary, price_metrics,
    crop_insights, df_opp_filtered, opportunity_tabs,
    actual_processing, annual_revenue, net_profit, payback_period, annual_roi,
    result_col4

tables == <<df_production, df_trade, df_capacity, df_prices, df_opportunities>>

\* NumPy's global generator, its stream of standard normals, the runs of load_price_data
generator == <<rng, normal_stream, price_loads>>

widgets == <<selected_countries, year_range, investment_focus, selected_commodities,
             investment_amount, processing_capacity, capacity_utilization, margin_per_mt>>

pipeline == <<df_production_filtered, df_trade_filtered, df_capacity_filtered,
              latest_year_prod, prev_year_prod, yoy_growth,
              investment_opps, avg_roi, avg_roi_metric,
              crop_totals, top_crops, yield_data, yield_data_sorted, country_totals,
              crop_country_totals, crop_country, imports, imports_totals, imports_summary,
              fig_capacity, gap_totals, gap_summary, price_metrics,
              crop_insights, df_opp_filtered, opportunity_tabs>>

calculator == <<actual_processing, annual_revenue, net_profit, payback_period, annual_roi,
                result_col4>>

vars == <<tables, generator, widgets, pipeline, calculator>>

(***************************************************************************)
(* Arithmetic on doubles, modelled exactly.                                *)
(***************************************************************************)
RECURSIVE GCD(_, _)
GCD(a, b) == IF b = 0 THEN a ELSE GCD(b, a % b)

Abs(x) == IF x < 0 THEN -x ELSE x

\* n / d in lowest terms with a positive denominator
Rat(n, d) ==
    LET s == IF d < 0 THEN -1 ELSE 1
        g == GCD(Abs(n), Abs(d))
    IN  <<(s * n) \div g, (s * d) \div g>>

R(n) == <<n, 1>>

NaN == <<0, 0>>

IsNaN(x) == x[2] = 0

RAdd(x, y) ==
    LET g == GCD(x[2], y[2])
        l == (x[2] \div g) * y[2]
    IN  Rat(x[1] * (l \div x[2]) + y[1] * (l \div y[2]), l)

RNeg(x) == <<-x[1], x[2]>>

RSub(x, y) == RAdd(x, RNeg(y))

RMul(x, y) ==
    LET g1 == GCD(Abs(x[1]), y[2])
        g2 == GCD(Abs(y[1]), x[2])
    IN  Rat((x[1] \div g1) * (y[1] \div g2), (x[2] \div g2) * (y[2] \div g1))

\* x / y for y # 0 (the script guards every division whose divisor can be 0)
RDiv(x, y) == RMul(x, IF y[1] < 0 THEN <<-y[2], -y[1]>> ELSE <<y[2], y[1]>>)

\* -1, 0, 1 as n1/d1 is below, equal to, above n2/d2; by integer parts and
\* reciprocals of the fractional parts, so that no product is formed
RECURSIVE Cmp(_, _, _, _)
Cmp(n1, d1, n2, d2) ==
    LET q1 == n1 \div d1
        q2 == n2 \div d2
        r1 == n1 % d1
        r2 == n2 % d2
    IN  IF q1 < q2 THEN -1
        ELSE IF q1 > q2 THEN 1
        ELSE IF r1 = 0 /\ r2 = 0 THEN 0
        ELSE IF r1 = 0 THEN -1
        ELSE IF r2 = 0 THEN 1
        ELSE Cmp(d2, r2, d1, r1)

RLess(x, y) == Cmp(x[1], x[2], y[1], y[2]) = -1

RLeq(x, y) == Cmp(x[1], x[2], y[1], y[2]) # 1

\* the number of tenths f"{x:.1f}" prints: x rounded to one decimal, halves to even
Fixed1(x) ==
    LET whole == x[1] \div x[2]
        part == (x[1] % x[2]) * 10
        q == whole * 10 + (part \div x[2])
        twice == 2 * (part % x[2])
    IN  IF twice < x[2] THEN q
        ELSE IF twice > x[2] THEN q + 1
        ELSE IF q % 2 = 0 THEN q ELSE q + 1

(***************************************************************************)
(* The tables, built as the loaders build them.                            *)
(***************************************************************************)
\* a list given by its items, as a list value
List(items) == items \o <<>>

\* list * k
Times(list, k) == [i \in 1..(Len(list) * k) |-> list[((i - 1) % Len(list)) + 1]]

\* [x] * k
Fill(x, k) == [i \in 1..k |-> x]

\* range(2019, 2024)
years == <<2019, 2020, 2021, 2022, 2023>>

zambia_data ==
    [Year |-> Times(years, 8),
     Country |-> Fill("Zambia", 40),
     Crop |-> Fill("Maize", 5) \o Fill("Soybean", 5) \o Fill("Wheat", 5) \o Fill("Cotton", 5) \o
              Fill("Groundnuts", 5) \o Fill("Sunflower", 5) \o Fill("Sweet Potato", 5) \o
              Fill("Cassava", 5),
     Production_MT |->
        <<3200000, 2500000, 3800000, 3500000, 3600000,
          350000, 380000, 420000, 450000, 480000,
          250000, 280000, 300000, 320000, 340000,
          180000, 160000, 200000, 220000, 240000,
          120000, 130000, 140000, 150000, 160000,
          80000, 85000, 90000, 95000, 100000,
          900000, 920000, 950000, 980000, 1000000,
          1200000, 1250000, 1300000, 1350000, 1400000>>,
     Area_Hectares |->
        <<1200000, 1100000, 1300000, 1250000, 1280000,
          180000, 200000, 220000, 240000, 260000,
          85000, 90000, 95000, 100000, 105000,
          120000, 110000, 130000, 140000, 150000,
          180000, 185000, 190000, 195000, 200000,
          45000, 47000, 49000, 51000, 53000,
          80000, 82000, 84000, 86000, 88000,
          280000, 285000, 290000, 295000, 300000>>]

botswana_data ==
    [Year |-> Times(years, 5),
     Country |-> Fill("Botswana", 25),
     Crop |-> Fill("Sorghum", 5) \o Fill("Maize", 5) \o Fill("Millet", 5) \o
              Fill("Beans", 5) \o Fill("Groundnuts", 5),
     Production_MT |->
        <<25000, 18000, 30000, 28000, 32000,
          8000, 6000, 10000, 9000, 11000,
          3000, 2500, 3500, 3200, 3800,
          2500, 2200, 2800, 2600, 3000,
          1800, 1600, 2000, 1900, 2200>>,
     Area_Hectares |->
        <<85000, 80000, 90000, 88000, 92000,
          25000, 22000, 28000, 26000, 30000,
          15000, 13000, 16000, 15000, 17000,
          8000, 7500, 8500, 8200, 9000,
          7000, 6500, 7500, 7200, 8000>>]

\* pd.concat([df_zambia, df_botswana], ignore_index=True), then the Yield column
load_production_data ==
    LET cols == [c \in {"Year", "Country", "Crop", "Production_MT", "Area_Hectares"} |->
                    zambia_data[c] \o botswana_data[c]]
    IN  [i \in 1..Len(cols["Year"]) |->
            [idx |-> i - 1,
             Year |-> cols["Year"][i],
             Country |-> cols["Country"][i],
             Crop |-> cols["Crop"][i],
             Production_MT |-> cols["Production_MT"][i],
             Area_Hectares |-> cols["Area_Hectares"][i],
             Yield_MT_per_Ha |-> RDiv(R(cols["Production_MT"][i]), R(cols["Area_Hectares"][i]))]]

\* A category label, word by word
MaizeExports == <<"Maize", "Exports">>
MaizeImports == <<"Maize", "Imports">>
WheatImports == <<"Wheat", "Imports">>
SoybeanExports == <<"Soybean", "Exports">>
CottonExports == <<"Cotton", "Exports">>
MeatImports == <<"Meat", "Imports">>
DairyImports == <<"Dairy", "Imports">>
ProcessedFoodsImports == <<"Processed", "Foods", "Imports">>
VegetableOilImports == <<"Vegetable", "Oil", "Imports">>

trade_data ==
    [Year |-> Times(years, 12),
     Country |-> Fill("Zambia", 30) \o Fill("Botswana", 30),
     Category |->
        Times(<<MaizeExports, WheatImports, SoybeanExports, CottonExports,
                ProcessedFoodsImports, VegetableOilImports>>, 5) \o
        Times(<<MaizeImports, WheatImports, MeatImports, DairyImports,
                ProcessedFoodsImports, VegetableOilImports>>, 5),
     Value_USD_Millions |->
        <<120, 80, 180, 150, 160,
          95, 105, 110, 120, 130,
          45, 50, 60, 70, 80,
          30, 25, 35, 40, 45,
          250, 260, 280, 300, 320,
          65, 70, 75, 80, 85,
          180, 200, 190, 210, 220,
          85, 90, 95, 100, 105,
          120, 130, 140, 150, 160,
          95, 100, 105, 110, 115,
          450, 480, 510, 540, 570,
          45, 48, 51, 54, 57>>]

load_trade_data ==
    [i \in 1..Len(trade_data.Year) |->
        [idx |-> i - 1,
         Year |-> trade_data.Year[i],
         Country |-> trade_data.Country[i],
         Category |-> trade_data.Category[i],
         Value_USD_Millions |-> trade_data.Value_USD_Millions[i]]]

capacity_data ==
    [Country |-> Fill("Zambia", 6) \o Fill("Botswana", 4),
     Processing_Type |->
        <<"Maize Milling", "Wheat Milling", "Vegetable Oil Extraction",
          "Cotton Ginning", "Dairy Processing", "Meat Processing",
          "Maize Milling", "Dairy Processing", "Meat Processing", "Vegetable Processing">>,
     Number_of_Facilities |-> <<85, 12, 8, 15, 25, 35, 8, 5, 12, 4>>,
     Total_Capacity_MT_per_year |->
        <<2500000, 400000, 150000, 200000, 180000, 250000,
          80000, 50000, 120000, 15000>>,
     Capacity_Utilization_Percent |-> <<75, 60, 45, 70, 65, 80, 55, 70, 85, 40>>,
     Investment_Potential |->
        <<"Medium", "High", "Very High", "Medium", "High", "Medium",
          "High", "Medium", "Low", "Very High">>]

\* the utilized share taken for the unutilized one
UnutilizedCapacity_Utilized(total, utilization) == RDiv(R(total * utilization), R(100))

\* df['Total_Capacity_MT_per_year'] * (100 - df['Capacity_Utilization_Percent']) / 100
UnutilizedCapacity(total, utilization) == RDiv(R(total * (100 - utilization)), R(100))

\* the table with Botswana's tags taken from Zambia's rows of the same type
CapacityRows_SameTags(data) ==
    [i \in 1..Len(data.Country) |->
        [idx |-> i - 1,
         Country |-> data.Country[i],
         Processing_Type |-> data.Processing_Type[i],
         Number_of_Facilities |-> data.Number_of_Facilities[i],
         Total_Capacity_MT_per_year |-> data.Total_Capacity_MT_per_year[i],
         Capacity_Utilization_Percent |-> data.Capacity_Utilization_Percent[i],
         Investment_Potential |->
            data.Investment_Potential[
                CHOOSE j \in 1..i :
                    /\ data.Processing_Type[j] = data.Processing_Type[i]
                    /\ \A k \in 1..(j - 1) : data.Processing_Type[k] # data.Processing_Type[i]],
         Unutilized_Capacity_MT |->
            UnutilizedCapacity(data.Total_Capacity_MT_per_year[i],
                               data.Capacity_Utilization_Percent[i])]]

\* pd.DataFrame(capacity_data) with the derived column
CapacityRows(data) ==
    [i \in 1..Len(data.Country) |->
        [idx |-> i - 1,
         Country |-> data.Country[i],
         Processing_Type |-> data.Processing_Type[i],
         Number_of_Facilities |-> data.Number_of_Facilities[i],
         Total_Capacity_MT_per_year |-> data.Total_Capacity_MT_per_year[i],
         Capacity_Utilization_Percent |-> data.Capacity_Utilization_Percent[i],
         Investment_Potential |-> data.Investment_Potential[i],
         Unutilized_Capacity_MT |->
            UnutilizedCapacity(data.Total_Capacity_MT_per_year[i],
                               data.Capacity_Utilization_Percent[i])]]

load_processing_capacity == List(CapacityRows(capacity_data))

\* pd.date_range(start='2019-01-01', end='2024-10-31', freq='ME'): the month ends
dates == List([i \in 1..70 |-> <<2019 + ((i - 1) \div 12), ((i - 1) % 12) + 1>>])

\* np.linspace(0, stop, n)[i], i = 0 .. n - 1
Linspace(stop, n, i) == Rat(stop * i, n - 1)

\* np.sin(np.linspace(0, 5*2*np.pi, 70)), in hundredths
Sin100 ==
    <<0, 44, 79, 98, 97, 76, 40, -5, -48, -82,
      -99, -96, -73, -36, 9, 52, 84, 99, 94, 70,
      31, -14, -56, -87, -100, -93, -67, -27, 18, 59,
      89, 100, 91, 63, 23, -23, -63, -91, -100, -89,
      -59, -18, 27, 67, 93, 100, 87, 56, 14, -31,
      -70, -94, -99, -84, -52, -9, 36, 73, 96, 99,
      82, 48, 5, -40, -76, -97, -98, -79, -44, 0>>

\* the generator left as it was
SeedRng_NotSeeded(state, seed) == state

\* np.random.seed(seed): the global generator restarts the stream of that seed
SeedRng(state, seed) == [seed |-> seed, pos |-> 0]

\* the standard normals NumPy draws are not part of the repository: a stream gives,
\* for a seed and a position, the value drawn there, in whole standard deviations
StandardNormal(stream, seed, pos) == stream[((seed + pos) % Len(stream)) + 1]

\* np.random.normal(0, noise_level, n)[i], drawn from the state the generator is in
Normal(stream, state, noise_level, i) ==
    R(noise_level * StandardNormal(stream, state.seed, state.pos + i))

\* the prices returned as computed
Floored_NoFloor(price, base_price) == price

\* np.maximum(prices, base_price * 0.5)
Floored(price, base_price) ==
    IF RLess(price, Rat(base_price, 2)) THEN Rat(base_price, 2) ELSE price

\* generate_price_series(base_price, trend, seasonality_amplitude, noise_level), run
\* with the generator in the given state
generate_price_series(base_price, trend, seasonality_amplitude, noise_level, stream, state) ==
    LET n == Len(dates)
    IN  List([k \in 1..n |->
            LET trend_component == Linspace(trend, n, k - 1)
                seasonal_component == Rat(seasonality_amplitude * Sin100[k], 100)
                noise == Normal(stream, state, noise_level, k - 1)
                prices == RAdd(RAdd(RAdd(R(base_price), trend_component),
                                    seasonal_component), noise)
            IN  Floored(prices, base_price)])

\* the generator after n draws
Drawn(state, n) == [seed |-> state.seed, pos |-> state.pos + n]

\* load_price_data(): the seed, then the five series one after the other; the table
\* and the state the generator is left in
load_price_data(stream, state) ==
    LET n == Len(dates)
        s0 == SeedRng(state, 42)
        s1 == Drawn(s0, n)
        s2 == Drawn(s1, n)
        s3 == Drawn(s2, n)
        s4 == Drawn(s3, n)
    IN  [df |->
            [Date |-> dates,
             Maize_USD_per_MT |-> generate_price_series(180, 40, 30, 15, stream, s0),
             Wheat_USD_per_MT |-> generate_price_series(280, 50, 35, 20, stream, s1),
             Soybean_USD_per_MT |-> generate_price_series(450, 80, 50, 30, stream, s2),
             Cotton_USD_per_MT |-> generate_price_series(1800, 200, 150, 100, stream, s3),
             Groundnuts_USD_per_MT |-> generate_price_series(900, 100, 80, 50, stream, s4)],
         rng |-> Drawn(s4, n)]

\* base_price of the series of a column
BasePrice ==
    [Maize_USD_per_MT |-> 180, Wheat_USD_per_MT |-> 280, Soybean_USD_per_MT |-> 450,
     Cotton_USD_per_MT |-> 1800, Groundnuts_USD_per_MT |-> 900]

opportunities ==
    [Country |-> Fill("Zambia", 5) \o Fill("Botswana", 4),
     Opportunity |->
        <<"Vegetable Oil Processing Plant", "Soybean Processing & Crushing",
          "Wheat Flour Milling", "Cotton Textile Manufacturing", "Dried Fruit Processing",
          "Vegetable Processing & Packaging", "Dairy Processing Plant",
          "Grain Storage & Handling", "Organic Produce Processing">>,
     Investment_Size_USD |->
        <<"5M - 15M", "3M - 8M", "8M - 20M", "10M - 25M", "1M - 3M",
          "2M - 5M", "4M - 10M", "3M - 7M", "1M - 3M">>,
     Estimated_ROI_Years |->
        <<R(4), Rat(7, 2), R(5), R(6), R(3), Rat(7, 2), R(5), R(4), R(3)>>,
     Market_Gap_MT |-> <<85000, 200000, 120000, 60000, 15000, 9000, 15000, 50000, 8000>>]

load_investment_opportunities ==
    [i \in 1..Len(opportunities.Country) |->
        [idx |-> i - 1,
         Country |-> opportunities.Country[i],
         Opportunity |-> opportunities.Opportunity[i],
         Investment_Size_USD |-> opportunities.Investment_Size_USD[i],
         Estimated_ROI_Years |-> opportunities.Estimated_ROI_Years[i],
         Market_Gap_MT |-> opportunities.Market_Gap_MT[i]]]

(***************************************************************************)
(* Filtering (Series.isin, the boolean masks).                             *)
(***************************************************************************)
\* x in list
isin(x, list) == \E i \in DOMAIN list : list[i] = x

\* the upper bound of the year range left out of it
FilterCountryYear_UpperExclusive(df, countries, yr) ==
    SelectSeq(df, LAMBDA r : isin(r.Country, countries) /\ r.Year >= yr[1] /\ r.Year < yr[2])

\* the first matching row lost
FilterCountryYear_FirstLost(df, countries, yr) ==
    LET hits == SelectSeq(df,
                    LAMBDA r : isin(r.Country, countries) /\ r.Year >= yr[1] /\ r.Year <= yr[2])
    IN  IF hits = <<>> THEN hits ELSE Tail(hits)

\* df[(df['Country'].isin(countries)) & (df['Year'] >= yr[0]) & (df['Year'] <= yr[1])]
FilterCountryYear(df, countries, yr) ==
    SelectSeq(df, LAMBDA r : isin(r.Country, countries) /\ r.Year >= yr[1] /\ r.Year <= yr[2])

\* df[df['Country'].isin(countries)]
FilterCountry(df, countries) == SelectSeq(df, LAMBDA r : isin(r.Country, countries))

\* df[df['Year'] == y]
FilterYear(df, y) == SelectSeq(df, LAMBDA r : r.Year = y)

\* Series.str.contains(word) on a category label
str_contains(label, word) == \E i \in DOMAIN label : label[i] = word

(***************************************************************************)
(* Aggregation (sum, mean, groupby with its sorted keys, nlargest).        *)
(***************************************************************************)
RECURSIVE SumFirst(_, _, _)
SumFirst(df, col, k) == IF k = 0 THEN 0 ELSE df[k][col] + SumFirst(df, col, k - 1)

\* Series.sum() of an integer column
SumCol(df, col) == SumFirst(df, col, Len(df))

RECURSIVE RSumFirst(_, _, _)
RSumFirst(df, col, k) == IF k = 0 THEN R(0) ELSE RAdd(RSumFirst(df, col, k - 1), df[k][col])

\* Series.sum() of a float column
RSumCol(df, col) == RSumFirst(df, col, Len(df))

\* Series.mean() of an integer column: NaN for an empty one
MeanCol(df, col) == IF df = <<>> THEN NaN ELSE RDiv(R(SumCol(df, col)), R(Len(df)))

\* Series.mean() of a float column
RMeanCol(df, col) == IF df = <<>> THEN NaN ELSE RDiv(RSumCol(df, col), R(Len(df)))

\* the order groupby gives its keys (sort=True): Python's order of the strings
CountrySorted == <<"Botswana", "Zambia">>

CropSorted ==
    <<"Beans", "Cassava", "Cotton", "Groundnuts", "Maize", "Millet", "Sorghum", "Soybean",
      "Sunflower", "Sweet Potato", "Wheat">>

CategorySorted ==
    <<CottonExports, DairyImports, MaizeExports, MaizeImports, MeatImports,
      ProcessedFoodsImports, SoybeanExports, VegetableOilImports, WheatImports>>

ProcessingTypeSorted ==
    <<"Cotton Ginning", "Dairy Processing", "Maize Milling", "Meat Processing",
      "Vegetable Oil Extraction", "Vegetable Processing", "Wheat Milling">>

\* the pairs <<a, b>> in the order of a, then of b
PairsSorted(A, B) ==
    [i \in 1..(Len(A) * Len(B)) |-> <<A[((i - 1) \div Len(B)) + 1], B[((i - 1) % Len(B)) + 1]>>]

CountryCropSorted == PairsSorted(CountrySorted, CropSorted)

CountryCategorySorted == PairsSorted(CountrySorted, CategorySorted)

\* df.groupby(col): the keys found in df, sorted, each with its rows in table order
GroupBy(df, col, sorted) ==
    LET present == {df[i][col] : i \in DOMAIN df}
        found == SelectSeq(sorted, LAMBDA k : k \in present)
    IN  List([g \in DOMAIN found |->
            [key |-> found[g], rows |-> SelectSeq(df, LAMBDA r : r[col] = found[g])]])

\* the rows of a group taken by the second key alone
GroupBy2_SecondKeyRows(df, col1, col2, sorted) ==
    LET present == {<<df[i][col1], df[i][col2]>> : i \in DOMAIN df}
        found == SelectSeq(sorted, LAMBDA k : k \in present)
    IN  List([g \in DOMAIN found |->
            [key |-> found[g], rows |-> SelectSeq(df, LAMBDA r : r[col2] = found[g][2])]])

\* df.groupby([col1, col2])
GroupBy2(df, col1, col2, sorted) ==
    LET present == {<<df[i][col1], df[i][col2]>> : i \in DOMAIN df}
        found == SelectSeq(sorted, LAMBDA k : k \in present)
    IN  List([g \in DOMAIN found |->
            [key |-> found[g],
             rows |-> SelectSeq(df, LAMBDA r : r[col1] = found[g][1] /\ r[col2] = found[g][2])]])

Min(a, b) == IF a < b THEN a ELSE b

\* an integer column and a float column of df, as lists of numbers
Column(df, col) == List([i \in DOMAIN df |-> R(df[i][col])])

RColumn(df, col) == List([i \in DOMAIN df |-> df[i][col]])

\* the rows keep='last' would give: rows of equal measure in reverse order
NLargest_KeepLast(df, n, m) ==
    LET before(j, i) == RLess(m[i], m[j]) \/ (m[j] = m[i] /\ j > i)
        place == List([i \in DOMAIN df |-> Cardinality({j \in DOMAIN df : before(j, i)}) + 1])
    IN  List([p \in 1..Min(n, Len(df)) |-> df[CHOOSE i \in DOMAIN df : place[i] = p]])

\* nlargest(n, keep='first') by the measures m of the rows: the rows in descending
\* order of the measure, rows of equal measure in their order in df, cut to the first n
NLargest(df, n, m) ==
    LET before(j, i) == RLess(m[i], m[j]) \/ (m[j] = m[i] /\ j < i)
        place == List([i \in DOMAIN df |-> Cardinality({j \in DOMAIN df : before(j, i)}) + 1])
    IN  List([p \in 1..Min(n, Len(df)) |-> df[CHOOSE i \in DOMAIN df : place[i] = p]])

(***************************************************************************)
(* What one run of the script computes.                                    *)
(***************************************************************************)
\* f"{x:.1f}" followed by a suffix, as st.metric shows it
FormatF1(x, suffix) ==
    IF IsNaN(x)
    THEN [numeric |-> FALSE, tenths |-> 0, text |-> "nan" \o suffix]
    ELSE [numeric |-> TRUE, tenths |-> Fixed1(x), text |-> suffix]

\* a metric whose value is a fixed text
FormatText(text) == [numeric |-> FALSE, tenths |-> 0, text |-> text]

\* the year's production read from the whole table, not from the filtered view
YearProduction_WholeTable(df, y) ==
    RDiv(R(SumCol(FilterYear(load_production_data, y), "Production_MT")), R(1000000))

\* df[df['Year'] == y]['Production_MT'].sum() / 1e6
YearProduction(df, y) == RDiv(R(SumCol(FilterYear(df, y), "Production_MT")), R(1000000))

\* the growth as a fraction, not as a percentage
YoYGrowth_Fraction(latest, prev) ==
    IF RLess(R(0), prev) THEN RDiv(RSub(latest, prev), prev) ELSE R(0)

\* ((latest - prev) / prev * 100) if prev > 0 else 0
YoYGrowth(latest, prev) ==
    IF RLess(R(0), prev) THEN RMul(RDiv(RSub(latest, prev), prev), R(100)) ELSE R(0)

\* df_opportunities[...isin(selected_countries)]['Estimated_ROI_Years'].mean()
AvgRoi(df, countries) == RMeanCol(FilterCountry(df, countries), "Estimated_ROI_Years")

\* df.groupby('Crop')['Production_MT'].sum()
CropTotals(df) ==
    LET groups == GroupBy(df, "Crop", CropSorted)
    IN  List([g \in DOMAIN groups |->
            [idx |-> g - 1, Crop |-> groups[g].key,
             Production_MT |-> SumCol(groups[g].rows, "Production_MT")]])

\* (...).nlargest(5).index
TopCrops(totals) ==
    LET top == NLargest(totals, 5, Column(totals, "Production_MT"))
    IN  List([p \in DOMAIN top |-> top[p].Crop])

\* df.groupby(['Country', 'Crop']).agg({'Yield_MT_per_Ha': 'mean', 'Production_MT': 'mean'})
\*   .reset_index()
YieldData(df) ==
    LET groups == GroupBy2(df, "Country", "Crop", CountryCropSorted)
    IN  List([g \in DOMAIN groups |->
            [idx |-> g - 1, Country |-> groups[g].key[1], Crop |-> groups[g].key[2],
             Yield_MT_per_Ha |-> RMeanCol(groups[g].rows, "Yield_MT_per_Ha"),
             Production_MT |-> MeanCol(groups[g].rows, "Production_MT")]])

\* yield_data.nlargest(10, 'Yield_MT_per_Ha')
YieldDataSorted(data) == NLargest(data, 10, RColumn(data, "Yield_MT_per_Ha"))

\* df.groupby('Country')['Production_MT'].sum().reset_index()
CountryTotals(df) ==
    LET groups == GroupBy(df, "Country", CountrySorted)
    IN  List([g \in DOMAIN groups |->
            [idx |-> g - 1, Country |-> groups[g].key,
             Production_MT |-> SumCol(groups[g].rows, "Production_MT")]])

\* df.groupby(['Country', 'Crop'])['Production_MT'].sum().reset_index()
CropCountryTotals(df) ==
    LET groups == GroupBy2(df, "Country", "Crop", CountryCropSorted)
    IN  List([g \in DOMAIN groups |->
            [idx |-> g - 1, Country |-> groups[g].key[1], Crop |-> groups[g].key[2],
             Production_MT |-> SumCol(groups[g].rows, "Production_MT")]])

\* crop_country.nlargest(10, 'Production_MT')
CropCountry(totals) == NLargest(totals, 10, Column(totals, "Production_MT"))

\* df_trade_filtered[df_trade_filtered['Category'].str.contains('Imports')]
Imports(df) == SelectSeq(df, LAMBDA r : str_contains(r.Category, "Imports"))

\* imports.groupby(['Country', 'Category'])['Value_USD_Millions'].sum().reset_index()
ImportsTotals(df) ==
    LET groups == GroupBy2(df, "Country", "Category", CountryCategorySorted)
    IN  List([g \in DOMAIN groups |->
            [idx |-> g - 1, Country |-> groups[g].key[1], Category |-> groups[g].key[2],
             Value_USD_Millions |-> SumCol(groups[g].rows, "Value_USD_Millions")]])

\* imports_summary.nlargest(10, 'Value_USD_Millions')
ImportsSummary(totals) == NLargest(totals, 10, Column(totals, "Value_USD_Millions"))

\* Series.unique(): the countries of df in the order of their first rows
Unique(df) == SelectSeq(<<"Zambia", "Botswana">>, LAMBDA c : \E i \in DOMAIN df : df[i].Country = c)

\* the two bars of a country: the utilized and the unutilized capacity of its types
FigCapacity(df) ==
    LET countries == Unique(df)
        Data(c) == SelectSeq(df, LAMBDA r : r.Country = c)
    IN  List([t \in 1..(2 * Len(countries)) |->
            LET country == countries[(t + 1) \div 2]
                country_data == Data(country)
            IN  [name |-> <<country, IF t % 2 = 1 THEN "Utilized" ELSE "Unutilized">>,
                 x |-> List([i \in DOMAIN country_data |-> country_data[i].Processing_Type]),
                 y |-> IF t % 2 = 1
                       THEN List([i \in DOMAIN country_data |->
                                RDiv(R(country_data[i].Total_Capacity_MT_per_year
                                         * country_data[i].Capacity_Utilization_Percent), R(100))])
                       ELSE List([i \in DOMAIN country_data |->
                                country_data[i].Unutilized_Capacity_MT])]])

\* the tag of the last row of the group
GapTotals_LastTag(df) ==
    LET groups == GroupBy(df, "Processing_Type", ProcessingTypeSorted)
    IN  List([g \in DOMAIN groups |->
            [idx |-> g - 1, Processing_Type |-> groups[g].key,
             Total_Capacity_MT_per_year |-> SumCol(groups[g].rows, "Total_Capacity_MT_per_year"),
             Capacity_Utilization_Percent |->
                MeanCol(groups[g].rows, "Capacity_Utilization_Percent"),
             Unutilized_Capacity_MT |-> RSumCol(groups[g].rows, "Unutilized_Capacity_MT"),
             Investment_Potential |-> groups[g].rows[Len(groups[g].rows)].Investment_Potential]])

\* df.groupby('Processing_Type').agg({...: 'sum', ...: 'mean', ...: 'sum', ...: 'first'})
\*   .reset_index()
GapTotals(df) ==
    LET groups == GroupBy(df, "Processing_Type", ProcessingTypeSorted)
    IN  List([g \in DOMAIN groups |->
            [idx |-> g - 1, Processing_Type |-> groups[g].key,
             Total_Capacity_MT_per_year |-> SumCol(groups[g].rows, "Total_Capacity_MT_per_year"),
             Capacity_Utilization_Percent |->
                MeanCol(groups[g].rows, "Capacity_Utilization_Percent"),
             Unutilized_Capacity_MT |-> RSumCol(groups[g].rows, "Unutilized_Capacity_MT"),
             Investment_Potential |-> groups[g].rows[1].Investment_Potential]])

\* gap_summary.sort_values('Unutilized_Capacity_MT', ascending=False); no two types of
\* the table have equal sums, so the order does not depend on the sorting algorithm
GapSummary(totals) == NLargest(totals, Len(totals), RColumn(totals, "Unutilized_Capacity_MT"))

\* f'{commodity}_USD_per_MT'
ColName(commodity) ==
    CASE commodity = "Maize" -> "Maize_USD_per_MT"
      [] commodity = "Wheat" -> "Wheat_USD_per_MT"
      [] commodity = "Soybean" -> "Soybean_USD_per_MT"
      [] commodity = "Cotton" -> "Cotton_USD_per_MT"
      [] commodity = "Groundnuts" -> "Groundnuts_USD_per_MT"

\* the price insights: for each of selected_commodities[:3] the last price, the price
\* twelve rows before it and the change between them, in per cent
PriceMetrics(df, commodities) ==
    List([i \in 1..Min(3, Len(commodities)) |->
        LET col == df[ColName(commodities[i])]
            current_price == col[Len(col)]
            year_ago_price == IF Len(col) > 13 THEN col[Len(col) - 12] ELSE col[1]
            price_change == RMul(RDiv(RSub(current_price, year_ago_price), year_ago_price),
                                 R(100))
        IN  [commodity |-> commodities[i],
             current_price |-> current_price,
             year_ago_price |-> year_ago_price,
             price_change |-> price_change,
             delta |-> FormatF1(price_change, "% YoY")]])

\* the production insights: for each top crop whose production in the year before
\* the upper bound is above 0, its production in the upper year and the growth
CropInsights(df, yr, crops) ==
    LET latest_year_data == FilterYear(df, yr[2])
        prev_year_data == FilterYear(df, yr[2] - 1)
        Insight(crop) ==
            LET latest == SumCol(SelectSeq(latest_year_data, LAMBDA r : r.Crop = crop),
                                 "Production_MT")
                previous == SumCol(SelectSeq(prev_year_data, LAMBDA r : r.Crop = crop),
                                   "Production_MT")
            IN  [crop |-> crop, latest |-> latest, previous |-> previous,
                 growth |-> IF previous > 0
                            THEN RMul(RDiv(R(latest - previous), R(previous)), R(100))
                            ELSE NaN]
        all == List([i \in DOMAIN crops |-> Insight(crops[i])])
    IN  SelectSeq(all, LAMBDA m : m.previous > 0)

\* the single container given to Zambia whenever fewer than two countries are selected
OpportunityTabs_ElseZambia(df, selection) ==
    LET countries == IF Len(selection) = 2 THEN <<"Zambia", "Botswana">>
                     ELSE <<"Zambia">>
    IN  List([t \in DOMAIN countries |->
            [country |-> countries[t],
             cards |-> SelectSeq(df, LAMBDA r : r.Country = countries[t])]])

\* the tabs of the opportunities section, each with the cards of its country
OpportunityTabs(df, selection) ==
    LET countries == IF Len(selection) = 2 THEN <<"Zambia", "Botswana">>
                     ELSE IF isin("Zambia", selection) THEN <<"Zambia">>
                     ELSE <<"Botswana">>
    IN  List([t \in DOMAIN countries |->
            [country |-> countries[t],
             cards |-> SelectSeq(df, LAMBDA r : r.Country = countries[t])]])

\* the key metrics of the executive summary
KeyMetricsRan ==
    /\ latest_year_prod = YearProduction(df_production_filtered, year_range[2])
    /\ prev_year_prod = YearProduction(df_production_filtered, year_range[2] - 1)
    /\ yoy_growth = YoYGrowth(latest_year_prod, prev_year_prod)

\* the filtered views and the sections of the page that read them
ViewsRan ==
    /\ df_production_filtered = FilterCountryYear(df_production, selected_countries, year_range)
    /\ df_trade_filtered = FilterCountryYear(df_trade, selected_countries, year_range)
    /\ df_capacity_filtered = FilterCountry(df_capacity, selected_countries)
    /\ investment_opps = Len(FilterCountry(df_opportunities, selected_countries))
    /\ avg_roi = AvgRoi(df_opportunities, selected_countries)
    /\ avg_roi_metric = FormatF1(avg_roi, " years")
    /\ crop_totals = CropTotals(df_production_filtered)
    /\ top_crops = TopCrops(crop_totals)
    /\ yield_data = YieldData(df_production_filtered)
    /\ yield_data_sorted = YieldDataSorted(yield_data)
    /\ country_totals = CountryTotals(df_production_filtered)
    /\ crop_country_totals = CropCountryTotals(df_production_filtered)
    /\ crop_country = CropCountry(crop_country_totals)
    /\ imports = Imports(df_trade_filtered)
    /\ imports_totals = ImportsTotals(imports)
    /\ imports_summary = ImportsSummary(imports_totals)
    /\ fig_capacity = FigCapacity(df_capacity_filtered)
    /\ gap_totals = GapTotals(df_capacity_filtered)
    /\ gap_summary = GapSummary(gap_totals)
    /\ price_metrics = PriceMetrics(df_prices, selected_commodities)
    /\ crop_insights = CropInsights(df_production_filtered, year_range, top_crops)
    /\ df_opp_filtered = FilterCountry(df_opportunities, selected_countries)
    /\ opportunity_tabs = OpportunityTabs(df_opp_filtered, selected_countries)

PipelineRan == ViewsRan /\ KeyMetricsRan

(***************************************************************************)
(* The ROI calculator.                                                     *)
(***************************************************************************)
operating_costs_percent == 65

\* processing_capacity * (capacity_utilization / 100)
ActualProcessing(capacity, utilization) == RMul(R(capacity), RDiv(R(utilization), R(100)))

\* actual_processing * margin_per_mt
AnnualRevenue(processing, margin) == RMul(processing, R(margin))

\* the costs kept as the profit
NetProfit_CostShare(revenue) == RMul(revenue, Rat(operating_costs_percent, 100))

\* the costs and the revenue share exchanged in the difference
NetProfit_SignSlip(revenue) == RMul(revenue, Rat(operating_costs_percent - 100, 100))

\* annual_revenue * (100 - operating_costs_percent) / 100
NetProfit(revenue) == RMul(revenue, Rat(100 - operating_costs_percent, 100))

\* investment_amount / net_profit if net_profit > 0 else 0
PaybackPeriod(investment, profit) ==
    IF RLess(R(0), profit) THEN RDiv(R(investment), profit) ELSE R(0)

\* (net_profit / investment_amount * 100) if investment_amount > 0 else 0
AnnualRoi(investment, profit) ==
    IF investment > 0 THEN RMul(RDiv(profit, R(investment)), R(100)) ELSE R(0)

\* 0 <= payback_period < 20
ResultCol4_ZeroShown(payback, roi) ==
    IF RLeq(R(0), payback) /\ RLess(payback, R(20))
    THEN <<[label |-> "Payback Period", value |-> FormatF1(payback, " years")],
           [label |-> "Annual ROI", value |-> FormatF1(roi, "%")]>>
    ELSE <<[label |-> "Payback Period", value |-> FormatText("Review inputs")]>>

\* 0 < payback_period <= 20
ResultCol4_TwentyShown(payback, roi) ==
    IF RLess(R(0), payback) /\ RLeq(payback, R(20))
    THEN <<[label |-> "Payback Period", value |-> FormatF1(payback, " years")],
           [label |-> "Annual ROI", value |-> FormatF1(roi, "%")]>>
    ELSE <<[label |-> "Payback Period", value |-> FormatText("Review inputs")]>>

\* payback_period < 20
ResultCol4_NoLowerBound(payback, roi) ==
    IF RLess(payback, R(20))
    THEN <<[label |-> "Payback Period", value |-> FormatF1(payback, " years")],
           [label |-> "Annual ROI", value |-> FormatF1(roi, "%")]>>
    ELSE <<[label |-> "Payback Period", value |-> FormatText("Review inputs")]>>

\* if 0 < payback_period < 20: the two metrics; else: "Review inputs"
ResultCol4(payback, roi) ==
    IF RLess(R(0), payback) /\ RLess(payback, R(20))
    THEN <<[label |-> "Payback Period", value |-> FormatF1(payback, " years")],
           [label |-> "Annual ROI", value |-> FormatF1(roi, "%")]>>
    ELSE <<[label |-> "Payback Period", value |-> FormatText("Review inputs")]>>

CalculatorRan ==
    /\ actual_processing = ActualProcessing(processing_capacity, capacity_utilization)
    /\ annual_revenue = AnnualRevenue(actual_processing, margin_per_mt)
    /\ net_profit = NetProfit(annual_revenue)
    /\ payback_period = PaybackPeriod(investment_amount, net_profit)
    /\ annual_roi = AnnualRoi(investment_amount, net_profit)
    /\ result_col4 = ResultCol4(payback_period, annual_roi)

\* one run of the script, top to bottom
ScriptRan == PipelineRan /\ CalculatorRan

\* the same run, as the step from the state before the widget change
KeyMetricsRuns ==
    /\ latest_year_prod' = YearProduction(df_production_filtered', year_range'[2])
    /\ prev_year_prod' = YearProduction(df_production_filtered', year_range'[2] - 1)
    /\ yoy_growth' = YoYGrowth(latest_year_prod', prev_year_prod')

ViewsRuns ==
    /\ df_production_filtered' = FilterCountryYear(df_production', selected_countries', year_range')
    /\ df_trade_filtered' = FilterCountryYear(df_trade', selected_countries', year_range')
    /\ df_capacity_filtered' = FilterCountry(df_capacity', selected_countries')
    /\ investment_opps' = Len(FilterCountry(df_opportunities', selected_countries'))
    /\ avg_roi' = AvgRoi(df_opportunities', selected_countries')
    /\ avg_roi_metric' = FormatF1(avg_roi', " years")
    /\ crop_totals' = CropTotals(df_production_filtered')
    /\ top_crops' = TopCrops(crop_totals')
    /\ yield_data' = YieldData(df_production_filtered')
    /\ yield_data_sorted' = YieldDataSorted(yield_data')
    /\ country_totals' = CountryTotals(df_production_filtered')
    /\ crop_country_totals' = CropCountryTotals(df_production_filtered')
    /\ crop_country' = CropCountry(crop_country_totals')
    /\ imports' = Imports(df_trade_filtered')
    /\ imports_totals' = ImportsTotals(imports')
    /\ imports_summary' = ImportsSummary(imports_totals')
    /\ fig_capacity' = FigCapacity(df_capacity_filtered')
    /\ gap_totals' = GapTotals(df_capacity_filtered')
    /\ gap_summary' = GapSummary(gap_totals')
    /\ price_metrics' = PriceMetrics(df_prices', selected_commodities')
    /\ crop_insights' = CropInsights(df_production_filtered', year_range', top_crops')
    /\ df_opp_filtered' = FilterCountry(df_opportunities', selected_countries')
    /\ opportunity_tabs' = OpportunityTabs(df_opp_filtered', selected_countries')

PipelineRuns == ViewsRuns /\ KeyMetricsRuns

CalculatorRuns ==
    /\ actual_processing' = ActualProcessing(processing_capacity', capacity_utilization')
    /\ annual_revenue' = AnnualRevenue(actual_processing', margin_per_mt')
    /\ net_profit' = NetProfit(annual_revenue')
    /\ payback_period' = PaybackPeriod(investment_amount', net_profit')
    /\ annual_roi' = AnnualRoi(investment_amount', net_profit')
    /\ result_col4' = ResultCol4(payback_period', annual_roi')

ScriptRuns == PipelineRuns /\ CalculatorRuns

(***************************************************************************)
(* The session: the first run, then one run per widget change.             *)
(***************************************************************************)
\* the lists st.sidebar.multiselect can return
CountrySelections ==
    {<<>>, <<"Zambia">>, <<"Botswana">>, <<"Zambia", "Botswana">>, <<"Botswana", "Zambia">>}

\* the pairs the year slider can return
YearRanges == {yr \in (2019..2023) \X (2019..2023) : yr[1] <= yr[2]}

InvestmentFocusOptions ==
    {"All Sizes", "Small (< $3M)", "Medium ($3M - $10M)", "Large (> $10M)"}

\* the lists the commodity multiselect can return (a sample of them: none, one,
\* the default three, and lists longer than the three the price insights read)
CommoditySelections ==
    {<<>>, <<"Cotton">>, <<"Groundnuts">>, <<"Maize", "Soybean", "Wheat">>,
     <<"Wheat", "Maize">>, <<"Soybean", "Cotton", "Groundnuts">>,
     <<"Cotton", "Groundnuts", "Maize", "Wheat">>,
     <<"Maize", "Wheat", "Soybean", "Cotton", "Groundnuts">>}

\* the draws a stream can hold, in standard deviations: far below the mean (the
\* floor of the generator takes effect), the mean, above the mean
ZValues == {-20, 0, 1}

StreamPeriod == 3

\* the streams of standard normals the model runs over
NormalStreams == [1..StreamPeriod -> ZValues]

\* the stream of the sessions at the sidebar and at the calculator, which read no
\* price: every draw at the mean
QuietStream == [k \in 1..StreamPeriod |-> 0]

\* the states NumPy's generator can be in when the script starts: it is seeded by
\* the operating system unless the program seeds it
EntropySeeds == {7, 42}

\* the cached tables and the widgets' default values, for the streams given
FirstLoadWith(streams) ==
    /\ df_production = load_production_data
    /\ df_trade = load_trade_data
    /\ df_capacity = load_processing_capacity
    /\ \E stream \in streams, seed \in EntropySeeds :
          LET loaded == load_price_data(stream, [seed |-> seed, pos |-> 0])
          IN  /\ normal_stream = stream
              /\ df_prices = loaded.df
              /\ rng = loaded.rng
              /\ price_loads = 1
    /\ df_opportunities = load_investment_opportunities
    /\ selected_countries = <<"Zambia", "Botswana">>
    /\ year_range = <<2019, 2023>>
    /\ investment_focus = "All Sizes"
    /\ selected_commodities = <<"Maize", "Soybean", "Wheat">>
    /\ investment_amount = 5000000
    /\ processing_capacity = 50000
    /\ capacity_utilization = 70
    /\ margin_per_mt = 150

FirstLoad == FirstLoadWith({QuietStream})

Init == FirstLoad /\ ScriptRan

\* the production table filtered in place
SelectCountries_InPlace ==
    /\ selected_countries' \in CountrySelections
    /\ df_production' = FilterCountry(df_production, selected_countries')
    /\ UNCHANGED <<df_trade, df_capacity, df_prices, df_opportunities, generator,
                   selected_commodities, year_range, investment_focus,
                   investment_amount, processing_capacity, capacity_utilization, margin_per_mt>>
    /\ ScriptRuns

SelectCountries ==
    /\ selected_countries' \in CountrySelections
    /\ UNCHANGED <<tables, generator, selected_commodities, year_range, investment_focus,
                   investment_amount, processing_capacity, capacity_utilization, margin_per_mt>>
    /\ ScriptRuns

SetYearRange ==
    /\ year_range' \in YearRanges
    /\ UNCHANGED <<tables, generator, selected_commodities, selected_countries,
                   investment_focus,
                   investment_amount, processing_capacity, capacity_utilization, margin_per_mt>>
    /\ ScriptRuns

SetInvestmentFocus ==
    /\ investment_focus' \in InvestmentFocusOptions
    /\ UNCHANGED <<tables, generator, selected_commodities, selected_countries, year_range,
                   investment_amount, processing_capacity, capacity_utilization, margin_per_mt>>
    /\ ScriptRuns

\* a session at the sidebar
Next ==
    \/ SelectCountries
    \/ SetYearRange
    \/ SetInvestmentFocus

Spec == Init /\ [][Next]_vars

(***************************************************************************)
(* The calculator as a function of its four numbers.  The values cover the *)
(* ranges of the widgets (min_value .. max_value) and, beyond them, the    *)
(* border of the domain the calculator is documented for: the widgets keep *)
(* a session inside their ranges, the arithmetic below them does not.      *)
(***************************************************************************)
InvestmentValues == {-1000000, 0, 100000, 5000000, 36750000, 50000000}

CapacityValues == {-1000, 0, 1000, 50000, 500000}

UtilizationValues == {0, 30, 70, 95, 100}

MarginValues == {-10, 0, 10, 150, 1000}

SetInvestmentAmount ==
    /\ investment_amount' \in InvestmentValues
    /\ UNCHANGED <<tables, generator, selected_commodities,
                   selected_countries, year_range, investment_focus,
                   processing_capacity, capacity_utilization, margin_per_mt>>
    /\ ScriptRuns

SetProcessingCapacity ==
    /\ processing_capacity' \in CapacityValues
    /\ UNCHANGED <<tables, generator, selected_commodities,
                   selected_countries, year_range, investment_focus,
                   investment_amount, capacity_utilization, margin_per_mt>>
    /\ ScriptRuns

SetCapacityUtilization ==
    /\ capacity_utilization' \in UtilizationValues
    /\ UNCHANGED <<tables, generator, selected_commodities,
                   selected_countries, year_range, investment_focus,
                   investment_amount, processing_capacity, margin_per_mt>>
    /\ ScriptRuns

SetMarginPerMt ==
    /\ margin_per_mt' \in MarginValues
    /\ UNCHANGED <<tables, generator, selected_commodities,
                   selected_countries, year_range, investment_focus,
                   investment_amount, processing_capacity, capacity_utilization>>
    /\ ScriptRuns

NextCalc ==
    \/ SetInvestmentAmount
    \/ SetProcessingCapacity
    \/ SetCapacityUtilization
    \/ SetMarginPerMt

SpecCalc == Init /\ [][NextCalc]_vars

(***************************************************************************)
(* The price table: the commodity multiselect, and load_price_data run     *)
(* again when its cached table is gone (the cache cleared, or a new        *)
(* process), over every stream of draws.                                   *)
(***************************************************************************)
MaxLoads == 3

InitPrices == FirstLoadWith(NormalStreams) /\ ScriptRan

SelectCommodities ==
    /\ selected_commodities' \in CommoditySelections
    /\ UNCHANGED <<tables, generator, selected_countries, year_range, investment_focus,
                   investment_amount, processing_capacity, capacity_utilization, margin_per_mt>>
    /\ ScriptRuns

\* load_price_data runs again, with the generator as the last run left it or as a
\* new process finds it
ReloadPrices ==
    /\ price_loads < MaxLoads
    /\ \E before \in {rng} \cup {[seed |-> e, pos |-> 0] : e \in EntropySeeds} :
          LET loaded == load_price_data(normal_stream, before)
          IN  /\ df_prices' = loaded.df
              /\ rng' = loaded.rng
    /\ price_loads' = price_loads + 1
    /\ UNCHANGED <<df_production, df_trade, df_capacity, df_opportunities, normal_stream,
                   widgets>>
    /\ ScriptRuns

NextPrices ==
    \/ SelectCommodities
    \/ ReloadPrices

SpecPrices == InitPrices /\ [][NextPrices]_vars

(***************************************************************************)
(* Every widget of the page in one session, each over a few of its values. *)
(***************************************************************************)
FrameCountries == {<<>>, <<"Botswana">>, <<"Zambia", "Botswana">>}

FrameYears == {<<2019, 2023>>, <<2020, 2022>>, <<2021, 2021>>}

FrameFocus == {"All Sizes", "Large (> $10M)"}

FrameCommodities == {<<>>, <<"Maize", "Soybean", "Wheat">>,
                     <<"Cotton", "Groundnuts", "Maize", "Wheat">>}

NextFrame ==
    \/ selected_countries' \in FrameCountries /\ SelectCountries
    \/ year_range' \in FrameYears /\ SetYearRange
    \/ investment_focus' \in FrameFocus /\ SetInvestmentFocus
    \/ selected_commodities' \in FrameCommodities /\ SelectCommodities
    \/ investment_amount' \in {100000, 5000000} /\ SetInvestmentAmount
    \/ processing_capacity' \in {1000, 50000} /\ SetProcessingCapacity
    \/ capacity_utilization' \in {70, 95} /\ SetCapacityUtilization
    \/ margin_per_mt' \in {10, 150} /\ SetMarginPerMt

SpecFrame == Init /\ [][NextFrame]_vars

(***************************************************************************)
(* The growth expression as a function of its two operands.                *)
(***************************************************************************)
MaxProduction == 150

ProductionValues == {R(v) : v \in 0..MaxProduction}

InitGrowth ==
    /\ FirstLoad
    /\ ViewsRan
    /\ CalculatorRan
    /\ latest_year_prod \in ProductionValues
    /\ prev_year_prod \in ProductionValues
    /\ yoy_growth = YoYGrowth(latest_year_prod, prev_year_prod)

\* the production of one of the two years changes by one unit
ProductionChanges ==
    /\ \E d \in {-1, 1} :
          \/ latest_year_prod' = RAdd(latest_year_prod, R(d)) /\ UNCHANGED prev_year_prod
          \/ prev_year_prod' = RAdd(prev_year_prod, R(d)) /\ UNCHANGED latest_year_prod
    /\ latest_year_prod' \in ProductionValues
    /\ prev_year_prod' \in ProductionValues
    /\ yoy_growth' = YoYGrowth(latest_year_prod', prev_year_prod')
    /\ UNCHANGED <<tables, generator, widgets, calculator,
                   df_production_filtered, df_trade_filtered, df_capacity_filtered,
                   investment_opps, avg_roi, avg_roi_metric,
                   crop_totals, top_crops, yield_data, yield_data_sorted, country_totals,
                   crop_country_totals, crop_country, imports, imports_totals, imports_summary,
                   fig_capacity, gap_totals, gap_summary, price_metrics,
                   crop_insights, df_opp_filtered, opportunity_tabs>>

SpecGrowth == InitGrowth /\ [][ProductionChanges]_vars

(***************************************************************************)
(* The statements checked.                                                 *)
(***************************************************************************)
ReviewInputs == <<[label |-> "Payback Period", value |-> FormatText("Review inputs")]>>

\* C1: the year-over-year growth g of (latest, prev) satisfies
\* g * prev = (latest - prev) * 100 when prev > 0 and is exactly 0 when prev = 0,
\* whatever latest is; the growth of (150, 100) is 50.
C1_YoYGrowth ==
    /\ RLess(R(0), prev_year_prod) =>
          RMul(yoy_growth, prev_year_prod) = RMul(RSub(latest_year_prod, prev_year_prod), R(100))
    /\ prev_year_prod = R(0) => yoy_growth = R(0)
    /\ (latest_year_prod = R(150) /\ prev_year_prod = R(100)) => yoy_growth = R(50)

C1_Witness == latest_year_prod = R(150) /\ prev_year_prod = R(100) /\ yoy_growth = R(50)

\* C2: over the documented domain the calculator gives
\* volume = capacity * utilization / 100, revenue = volume * margin,
\* profit = revenue * (100 - 65) / 100, payback = investment / profit and
\* roi = profit / investment * 100 (each quotient where its divisor is positive);
\* for 5,000,000 / 50,000 / 70 / 150 these are 35,000, 5,250,000, 1,837,500,
\* a payback of 2.72 to two decimals and 36.75.
C2_RoiFormulas ==
    /\ RMul(actual_processing, R(100)) = R(processing_capacity * capacity_utilization)
    /\ annual_revenue = RMul(actual_processing, R(margin_per_mt))
    /\ net_profit = RMul(RDiv(annual_revenue, R(100)), R(100 - 65))
    /\ RLess(R(0), net_profit) => RMul(payback_period, net_profit) = R(investment_amount)
    /\ investment_amount > 0 =>
          annual_roi = RMul(RDiv(net_profit, R(investment_amount)), R(100))
    /\ (/\ investment_amount = 5000000
        /\ processing_capacity = 50000
        /\ capacity_utilization = 70
        /\ margin_per_mt = 150) =>
          /\ actual_processing = R(35000)
          /\ annual_revenue = R(5250000)
          /\ net_profit = R(1837500)
          /\ RLeq(Rat(2715, 1000), payback_period) /\ RLess(payback_period, Rat(2725, 1000))
          /\ annual_roi = Rat(3675, 100)

C2_Witness ==
    /\ investment_amount = 5000000
    /\ processing_capacity = 50000
    /\ capacity_utilization = 70
    /\ margin_per_mt = 150
    /\ net_profit = R(1837500)
    /\ payback_period = Rat(400, 147)

\* C3: with a margin of 0 the net profit is 0, the payback is the fallback 0 (no
\* quotient is formed) and the payback metric reads "Review inputs", not a number
\* of years.
C3_ZeroMargin ==
    margin_per_mt = 0 =>
        /\ net_profit = R(0)
        /\ payback_period = R(0)
        /\ result_col4 = ReviewInputs

C3_Witness ==
    /\ margin_per_mt = 0
    /\ investment_amount = 5000000
    /\ processing_capacity = 50000
    /\ capacity_utilization = 70
    /\ result_col4[1].value.text = "Review inputs"

\* C4: the payback metric is a number of years exactly when 0 < payback < 20; for
\* every other payback (20 itself and the fallback 0 included) the column holds the
\* one metric "Review inputs".
C4_PaybackShown ==
    LET inside == 0 < payback_period[1] /\ payback_period[1] < 20 * payback_period[2]
    IN  /\ inside <=> result_col4[1].value.numeric
        /\ inside => result_col4[1].value = FormatF1(payback_period, " years")
        /\ ~inside => result_col4 = ReviewInputs

C4_Witness ==
    /\ payback_period = R(20)
    /\ result_col4 = ReviewInputs

ExactView(view, df) ==
    LET Matches(r) == /\ \E c \in DOMAIN selected_countries : selected_countries[c] = r.Country
                      /\ year_range[1] <= r.Year
                      /\ r.Year <= year_range[2]
    IN  /\ \A i \in DOMAIN view : view[i] = df[view[i].idx + 1] /\ Matches(view[i])
        /\ \A j \in DOMAIN df : Matches(df[j]) => \E i \in DOMAIN view : view[i] = df[j]
        /\ \A i, k \in DOMAIN view : i < k => view[i].idx < view[k].idx

\* C6: for every country selection and year range the filtered production view and
\* the filtered trade view hold exactly the rows of their table whose country is
\* selected and whose year is in lo..hi, in table order; a selection that matches
\* nothing gives the empty view.
C6_FilteredViews ==
    /\ ExactView(df_production_filtered, df_production)
    /\ ExactView(df_trade_filtered, df_trade)
    /\ selected_countries = <<>> => df_production_filtered = <<>> /\ df_trade_filtered = <<>>

C6_Witness ==
    /\ selected_countries = <<"Botswana">>
    /\ year_range = <<2020, 2021>>
    /\ Len(df_production_filtered) = 10
    /\ Len(df_trade_filtered) = 12

\* C7: filtering a filtered view again with the same selection gives that view.
C7_FilterIdempotent ==
    /\ FilterCountryYear(df_production_filtered, selected_countries, year_range)
          = df_production_filtered
    /\ FilterCountryYear(df_trade_filtered, selected_countries, year_range)
          = df_trade_filtered

C7_Witness ==
    /\ selected_countries = <<"Zambia">>
    /\ year_range = <<2021, 2023>>
    /\ Len(df_production_filtered) = 24
    /\ FilterCountryYear(df_production_filtered, selected_countries, year_range)
          = df_production_filtered

\* C8: the per-group sums of each group-by add up to the sum over the rows of the
\* view that was grouped: production by country, by crop, by country and crop, and
\* import value by country and category.
C8_GroupSumsAddUp ==
    /\ SumCol(country_totals, "Production_MT") = SumCol(df_production_filtered, "Production_MT")
    /\ SumCol(crop_totals, "Production_MT") = SumCol(df_production_filtered, "Production_MT")
    /\ SumCol(crop_country_totals, "Production_MT")
          = SumCol(df_production_filtered, "Production_MT")
    /\ SumCol(imports_totals, "Value_USD_Millions") = SumCol(imports, "Value_USD_Millions")

C8_Witness ==
    /\ Len(df_production_filtered) = 65
    /\ Len(country_totals) = 2
    /\ Len(crop_totals) = 11
    /\ Len(crop_country_totals) = 13
    /\ Len(imports_totals) = 9
    /\ SumCol(crop_country_totals, "Production_MT") = 33785600

\* out is the n rows of table with the largest measures m, in descending order, rows
\* of equal measure in table order; all the rows when the table has fewer than n
TopOf(out, table, n, m) ==
    /\ Len(out) = IF Len(table) < n THEN Len(table) ELSE n
    /\ \A p \in DOMAIN out : out[p] = table[out[p].idx + 1]
    /\ \A p, q \in DOMAIN out :
          p < q => \/ RLess(m[out[q].idx + 1], m[out[p].idx + 1])
                   \/ m[out[q].idx + 1] = m[out[p].idx + 1] /\ out[p].idx < out[q].idx
    /\ \A j \in DOMAIN table :
          (\A p \in DOMAIN out : out[p] # table[j]) =>
              \A p \in DOMAIN out : RLeq(m[j], m[out[p].idx + 1])

\* C9: the top 5 crops by summed production, the top 10 crop-country pairs by mean
\* yield and by summed production, and the top 10 import categories are the N
\* largest entries of their grouped table in descending order, ties in the order of
\* the grouped table; a table of fewer than N entries (none included) is returned
\* whole, sorted.
C9_TopN ==
    /\ Len(top_crops) = IF Len(crop_totals) < 5 THEN Len(crop_totals) ELSE 5
    /\ \A p \in DOMAIN top_crops : \E i \in DOMAIN crop_totals : crop_totals[i].Crop = top_crops[p]
    /\ TopOf([p \in DOMAIN top_crops |->
                 crop_totals[CHOOSE i \in DOMAIN crop_totals : crop_totals[i].Crop = top_crops[p]]],
             crop_totals, 5, [i \in DOMAIN crop_totals |-> R(crop_totals[i].Production_MT)])
    /\ TopOf(yield_data_sorted, yield_data, 10,
             [i \in DOMAIN yield_data |-> yield_data[i].Yield_MT_per_Ha])
    /\ TopOf(crop_country, crop_country_totals, 10,
             [i \in DOMAIN crop_country_totals |-> R(crop_country_totals[i].Production_MT)])
    /\ TopOf(imports_summary, imports_totals, 10,
             [i \in DOMAIN imports_totals |-> R(imports_totals[i].Value_USD_Millions)])
    /\ selected_countries = <<>> =>
          top_crops = <<>> /\ yield_data_sorted = <<>> /\ crop_country = <<>>
              /\ imports_summary = <<>>

\* two import categories of equal value, shown in the order of the grouped table
C9_Witness ==
    /\ Len(imports_summary) = 3
    /\ imports_summary[1].Value_USD_Millions = imports_summary[2].Value_USD_Millions
    /\ imports_summary[1].idx < imports_summary[2].idx
    /\ Len(crop_country_totals) = 8
    /\ Len(top_crops) = 5

\* C10: with no country selected the Avg ROI Timeline metric shows a no-data text,
\* not a formatted number.
C10_NoDataShown ==
    selected_countries = <<>> =>
        avg_roi_metric \in {FormatText(t) : t \in {"No data", "no data", "N/A", "-"}}

\* the rows of the filtered capacity view of one processing type, in table order
TypeRows(type) == SelectSeq(df_capacity_filtered, LAMBDA r : r.Processing_Type = type)

\* C11: the gap summary has one row per processing type of the filtered capacity
\* view, with the sum of the total capacity, the mean utilization, the sum of the
\* unutilized capacity and the tag of the type's first record in table order; its
\* rows are in descending order of unutilized capacity.
C11_GapSummary ==
    LET types == {df_capacity_filtered[i].Processing_Type : i \in DOMAIN df_capacity_filtered}
    IN  /\ Len(gap_summary) = Cardinality(types)
        /\ \A p \in DOMAIN gap_summary :
              LET g == gap_summary[p]
                  rows == TypeRows(g.Processing_Type)
              IN  /\ g.Processing_Type \in types
                  /\ g.Total_Capacity_MT_per_year = SumCol(rows, "Total_Capacity_MT_per_year")
                  /\ RMul(g.Capacity_Utilization_Percent, R(Len(rows)))
                        = R(SumCol(rows, "Capacity_Utilization_Percent"))
                  /\ g.Unutilized_Capacity_MT = RSumCol(rows, "Unutilized_Capacity_MT")
                  /\ g.Investment_Potential = rows[1].Investment_Potential
                  /\ \A i \in DOMAIN rows : rows[1].idx <= rows[i].idx
        /\ \A p, q \in DOMAIN gap_summary :
              p < q => /\ gap_summary[p].Processing_Type # gap_summary[q].Processing_Type
                       /\ RLess(gap_summary[q].Unutilized_Capacity_MT,
                                gap_summary[p].Unutilized_Capacity_MT)

\* both countries selected: Maize Milling leads with Zambia's tag, Botswana's differs
C11_Witness ==
    /\ Len(df_capacity_filtered) = 10
    /\ Len(gap_summary) = 7
    /\ gap_summary[1].Processing_Type = "Maize Milling"
    /\ gap_summary[1].Investment_Potential = "Medium"
    /\ gap_summary[1].Unutilized_Capacity_MT = R(661000)
    /\ TypeRows("Maize Milling")[2].Investment_Potential = "High"

\* C12 as claimed: the records of the capacity table that share a processing type
\* carry the same tag.
C12_Homogeneous ==
    \A i, j \in DOMAIN df_capacity :
        df_capacity[i].Processing_Type = df_capacity[j].Processing_Type =>
            df_capacity[i].Investment_Potential = df_capacity[j].Investment_Potential

\* C12 as amended: Maize Milling, Dairy Processing and Meat Processing, and no other
\* type, carry different tags in the two countries; the tag reported for a type is
\* Zambia's when Zambia is selected and has the type, and Botswana's otherwise.
C12_TagBySelection ==
    LET Tag(country, type) ==
            LET i == CHOOSE k \in DOMAIN df_capacity :
                        df_capacity[k].Country = country /\ df_capacity[k].Processing_Type = type
            IN  df_capacity[i].Investment_Potential
        Has(country, type) ==
            \E k \in DOMAIN df_capacity :
                df_capacity[k].Country = country /\ df_capacity[k].Processing_Type = type
    IN  /\ {t \in {df_capacity[i].Processing_Type : i \in DOMAIN df_capacity} :
                \E i, j \in DOMAIN df_capacity :
                    /\ df_capacity[i].Processing_Type = t
                    /\ df_capacity[j].Processing_Type = t
                    /\ df_capacity[i].Investment_Potential # df_capacity[j].Investment_Potential}
              = {"Maize Milling", "Dairy Processing", "Meat Processing"}
        /\ \A i, j \in DOMAIN df_capacity :
              (i # j /\ df_capacity[i].Processing_Type = df_capacity[j].Processing_Type) =>
                  df_capacity[i].Country # df_capacity[j].Country
        /\ \A p \in DOMAIN gap_summary :
              LET type == gap_summary[p].Processing_Type
              IN  gap_summary[p].Investment_Potential =
                      IF isin("Zambia", selected_countries) /\ Has("Zambia", type)
                      THEN Tag("Zambia", type)
                      ELSE Tag("Botswana", type)

\* Botswana alone: Maize Milling is reported "High", not the "Medium" of both countries
C12_Witness ==
    /\ selected_countries = <<"Botswana">>
    /\ \E p \in DOMAIN gap_summary :
          /\ gap_summary[p].Processing_Type = "Maize Milling"
          /\ gap_summary[p].Investment_Potential = "High"
    /\ df_capacity[1].Processing_Type = "Maize Milling"
    /\ df_capacity[1].Investment_Potential = "Medium"

\* C16: for every capacity record unutilized = total * (100 - utilization) / 100 and
\* 0 <= unutilized <= total; in the capacity chart the utilized bar
\* (total * utilization / 100) and the unutilized bar of a record add up to its total.
C16_UnutilizedCapacity ==
    /\ \A i \in DOMAIN df_capacity :
          LET r == df_capacity[i]
          IN  /\ RMul(r.Unutilized_Capacity_MT, R(100))
                    = R(r.Total_Capacity_MT_per_year * (100 - r.Capacity_Utilization_Percent))
              /\ RLeq(R(0), r.Unutilized_Capacity_MT)
              /\ RLeq(r.Unutilized_Capacity_MT, R(r.Total_Capacity_MT_per_year))
    /\ Len(fig_capacity) % 2 = 0
    /\ \A t \in DOMAIN fig_capacity :
          t % 2 = 1 =>
              LET country == fig_capacity[t].name[1]
                  rows == SelectSeq(df_capacity_filtered, LAMBDA r : r.Country = country)
              IN  /\ fig_capacity[t + 1].name = <<country, "Unutilized">>
                  /\ Len(fig_capacity[t].y) = Len(rows)
                  /\ Len(fig_capacity[t + 1].y) = Len(rows)
                  /\ \A i \in DOMAIN rows :
                        /\ RAdd(fig_capacity[t].y[i], fig_capacity[t + 1].y[i])
                              = R(rows[i].Total_Capacity_MT_per_year)
                        /\ RMul(fig_capacity[t].y[i], R(100))
                              = R(rows[i].Total_Capacity_MT_per_year
                                    * rows[i].Capacity_Utilization_Percent)
    /\ \A i \in DOMAIN df_capacity_filtered :
          \E t \in DOMAIN fig_capacity :
              fig_capacity[t].name = <<df_capacity_filtered[i].Country, "Unutilized">>

C16_Witness ==
    /\ Len(fig_capacity) = 4
    /\ fig_capacity[1].name = <<"Zambia", "Utilized">>
    /\ fig_capacity[1].y[1] = R(1875000)
    /\ fig_capacity[2].y[1] = R(625000)
    /\ df_capacity[1].Unutilized_Capacity_MT = R(625000)

\* C13: after any sequence of changes of the country selection, the year range, the
\* size selection, the commodity selection and the calculator's inputs, the five
\* tables hold what the loaders gave, and every view and value of the page is the
\* one the script computes from these tables and the current widget values alone.
C13_TablesKept ==
    /\ df_production = load_production_data
    /\ df_trade = load_trade_data
    /\ df_capacity = load_processing_capacity
    /\ df_prices = load_price_data(normal_stream, [seed |-> 42, pos |-> 0]).df
    /\ df_opportunities = load_investment_opportunities
    /\ ExactView(df_production_filtered, load_production_data)
    /\ ExactView(df_trade_filtered, load_trade_data)
    /\ df_capacity_filtered
          = SelectSeq(load_processing_capacity, LAMBDA r : isin(r.Country, selected_countries))
    /\ investment_opps
          = Cardinality({i \in DOMAIN load_investment_opportunities :
                            isin(load_investment_opportunities[i].Country, selected_countries)})
    /\ ScriptRan

\* a selection made after narrower ones, the calculator and the commodities changed
C13_Witness ==
    /\ selected_countries = <<"Zambia", "Botswana">>
    /\ year_range = <<2020, 2022>>
    /\ selected_commodities = <<>>
    /\ margin_per_mt = 10
    /\ investment_amount = 100000
    /\ Len(df_production_filtered) = 39
    /\ Len(df_production) = 65

\* C14: every run of load_price_data gives the same five series and leaves the
\* generator in the same state: the seed and the parameters decide the output.
C14_SameSeries == [][df_prices' = df_prices /\ rng' = rng]_vars

\* the table loaded again, over a stream whose draws differ
C14_Witness ==
    /\ price_loads > 1
    /\ normal_stream[1] # normal_stream[2]
    /\ rng = [seed |-> 42, pos |-> 350]
    /\ Len(df_prices.Maize_USD_per_MT) = 70

\* C15: every price of the five series is at least half the base price of its
\* commodity, hence above 0, and every price change shown is the quotient by a
\* price above 0.
C15_PriceFloor ==
    /\ \A col \in DOMAIN BasePrice :
          \A i \in DOMAIN df_prices[col] :
              /\ RLeq(Rat(BasePrice[col], 2), df_prices[col][i])
              /\ RLess(R(0), df_prices[col][i])
    /\ \A m \in DOMAIN price_metrics :
          /\ RLess(R(0), price_metrics[m].year_ago_price)
          /\ RMul(price_metrics[m].price_change, price_metrics[m].year_ago_price)
                = RMul(RSub(price_metrics[m].current_price, price_metrics[m].year_ago_price),
                       R(100))
          /\ price_metrics[m].delta.numeric

\* a draw far below the mean: Maize's price a year ago is the floor itself,
\* Soybean's is above its floor
C15_Witness ==
    /\ Len(price_metrics) = 3
    /\ price_metrics[1].commodity = "Maize"
    /\ price_metrics[1].year_ago_price = R(90)
    /\ price_metrics[2].commodity = "Soybean"
    /\ RLess(R(225), price_metrics[2].year_ago_price)
    /\ RLess(price_metrics[2].price_change, R(0))
    /\ \E i \in DOMAIN df_prices.Cotton_USD_per_MT : df_prices.Cotton_USD_per_MT[i] = R(900)

\* the bounds, in millions of dollars, of an Investment_Size_USD text
SizeRange(text) ==
    CASE text = "1M - 3M" -> <<1, 3>>
      [] text = "2M - 5M" -> <<2, 5>>
      [] text = "3M - 7M" -> <<3, 7>>
      [] text = "3M - 8M" -> <<3, 8>>
      [] text = "4M - 10M" -> <<4, 10>>
      [] text = "5M - 15M" -> <<5, 15>>
      [] text = "8M - 20M" -> <<8, 20>>
      [] text = "10M - 25M" -> <<10, 25>>

\* the cards of all the tabs
CardsShown ==
    UNION {{opportunity_tabs[t].cards[c] : c \in DOMAIN opportunity_tabs[t].cards} :
              t \in DOMAIN opportunity_tabs}

\* C17: with a size other than "All Sizes" selected, the opportunities shown are of
\* that size: none that starts at $3M or more under "Small (< $3M)", none that ends
\* at $10M or less under "Large (> $10M)", none that ends below $3M or starts
\* above $10M under "Medium ($3M - $10M)".
C17_SizeNarrows ==
    \A card \in CardsShown :
        LET size == SizeRange(card.Investment_Size_USD)
        IN  /\ investment_focus = "Small (< $3M)" => size[1] < 3
            /\ investment_focus = "Medium ($3M - $10M)" => size[2] >= 3 /\ size[1] <= 10
            /\ investment_focus = "Large (> $10M)" => size[2] > 10

\* the value of the trade record of a country, a category and a year
TradeValue(country, category, year) ==
    LET i == CHOOSE k \in DOMAIN df_trade :
                /\ df_trade[k].Country = country
                /\ df_trade[k].Category = category
                /\ df_trade[k].Year = year
    IN  df_trade[i].Value_USD_Millions

\* C18: the five values under a category comment are the values of that category's
\* records for 2019 to 2023: each country has one record per category and year,
\* Zambia's Maize Exports are 120, 80, 180, 150, 160, and Processed Foods Imports
\* in 2023 are 320 for Zambia and 570 for Botswana.
C18_ValuesUnderComment ==
    /\ \A k \in DOMAIN df_trade :
          Cardinality({j \in DOMAIN df_trade :
                          /\ df_trade[j].Country = df_trade[k].Country
                          /\ df_trade[j].Category = df_trade[k].Category
                          /\ df_trade[j].Year = df_trade[k].Year}) = 1
    /\ \A k \in DOMAIN df_trade :
          LET first == 5 * ((k - 1) \div 5) + 1
          IN  df_trade[k].Category = df_trade[first].Category
    /\ [y \in 1..5 |-> TradeValue("Zambia", MaizeExports, 2018 + y)]
          = <<120, 80, 180, 150, 160>>
    /\ TradeValue("Zambia", ProcessedFoodsImports, 2023) = 320
    /\ TradeValue("Botswana", ProcessedFoodsImports, 2023) = 570

\* C19: the growth compares the production of the upper year with that of the year
\* before it, both in the filtered view; with a range of a single year the growth
\* is 0 and no crop insight is shown, whatever the countries selected.
C19_SingleYear ==
    /\ RMul(latest_year_prod, R(1000000))
          = R(SumCol(SelectSeq(df_production_filtered, LAMBDA r : r.Year = year_range[2]),
                     "Production_MT"))
    /\ RMul(prev_year_prod, R(1000000))
          = R(SumCol(SelectSeq(df_production_filtered, LAMBDA r : r.Year = year_range[2] - 1),
                     "Production_MT"))
    /\ year_range[1] = year_range[2] =>
          /\ prev_year_prod = R(0)
          /\ yoy_growth = R(0)
          /\ crop_insights = <<>>

\* the single year 2021 of both countries: production, five top crops, no growth
C19_Witness ==
    /\ year_range = <<2021, 2021>>
    /\ Len(selected_countries) = 2
    /\ RLess(R(0), latest_year_prod)
    /\ Len(top_crops) = 5
    /\ yoy_growth = R(0)
    /\ crop_insights = <<>>

\* the four inputs within the bounds of their widgets
InWidgetBounds ==
    /\ 100000 <= investment_amount /\ investment_amount <= 50000000
    /\ 1000 <= processing_capacity /\ processing_capacity <= 500000
    /\ 30 <= capacity_utilization /\ capacity_utilization <= 95
    /\ 10 <= margin_per_mt /\ margin_per_mt <= 1000

\* C20: with the inputs within the bounds of their widgets the net profit is above
\* 0, the payback is the quotient investment / net profit (never the fallback 0),
\* "Review inputs" is shown exactly when investment >= 20 * net profit (stated as
\* net profit <= investment / 20), and the annual ROI is shown exactly when the
\* payback in years is.
C20_WithinWidgetBounds ==
    InWidgetBounds =>
        LET review == RLeq(net_profit, Rat(investment_amount, 20))
            shown(label) == \E k \in DOMAIN result_col4 :
                                result_col4[k].label = label /\ result_col4[k].value.numeric
        IN  /\ RLess(R(0), net_profit)
            /\ RLess(R(0), payback_period)
            /\ RMul(payback_period, net_profit) = R(investment_amount)
            /\ review <=> result_col4 = ReviewInputs
            /\ shown("Annual ROI") <=> shown("Payback Period")
            /\ ~review => shown("Payback Period")

\* the largest investment on the smallest plant: "Review inputs"; and the defaults
C20_Witness ==
    /\ InWidgetBounds
    /\ investment_amount = 50000000
    /\ processing_capacity = 1000
    /\ capacity_utilization = 30
    /\ margin_per_mt = 10
    /\ net_profit = R(1050)
    /\ result_col4 = ReviewInputs

\* the cards of the page from top to bottom: those of the first tab or container,
\* then those of the second tab
CardsInOrder ==
    IF Len(opportunity_tabs) = 2
    THEN opportunity_tabs[1].cards \o opportunity_tabs[2].cards
    ELSE opportunity_tabs[1].cards

\* the cards are the opportunity records of the selected countries, each once and
\* in table order, and the Investment Opportunities metric counts them
CardsAreSelectedRecords ==
    /\ \A i \in DOMAIN CardsInOrder :
          /\ CardsInOrder[i] = df_opportunities[CardsInOrder[i].idx + 1]
          /\ isin(CardsInOrder[i].Country, selected_countries)
    /\ \A j \in DOMAIN df_opportunities :
          isin(df_opportunities[j].Country, selected_countries)
             => \E i \in DOMAIN CardsInOrder : CardsInOrder[i] = df_opportunities[j]
    /\ \A i, k \in DOMAIN CardsInOrder : i < k => CardsInOrder[i].idx < CardsInOrder[k].idx
    /\ \A t \in DOMAIN opportunity_tabs :
          \A c \in DOMAIN opportunity_tabs[t].cards :
             opportunity_tabs[t].cards[c].Country = opportunity_tabs[t].country
    /\ investment_opps = Len(CardsInOrder)
    /\ selected_countries = <<>> => CardsInOrder = <<>>

\* C21: for every country selection (both in either order, one, none) and every
\* year range the opportunity cards are exactly the opportunity records whose
\* country is selected, in table order and each once, the Investment Opportunities
\* count is the number of cards, no card is shown with no country selected, and a
\* step that leaves the country selection alone (a change of the year range or of
\* the size focus) leaves the cards and the count as they were.
C21_OpportunityCards ==
    /\ []CardsAreSelectedRecords
    /\ [][selected_countries' = selected_countries
            => opportunity_tabs' = opportunity_tabs /\ investment_opps' = investment_opps]_vars

\* Botswana alone under a single-year range: its four cards in one container
C21_Witness ==
    /\ selected_countries = <<"Botswana">>
    /\ year_range = <<2021, 2021>>
    /\ Len(opportunity_tabs) = 1
    /\ Len(CardsInOrder) = 4
    /\ investment_opps = 4
    /\ CardsInOrder[1].Opportunity = "Vegetable Processing & Packaging"

====
